---------------------------- MODULE Spec2Model ----------------------------
(***************************************************************************)
(* A model of the two autopost entry points of the repository:             *)
(*   src/automation/cybersecurity_autopost.py   (Codex based, with lock)   *)
(*   src/automation/gemini_autopost.py          (Gemini based)             *)
(*                                                                         *)
(* Texts are TLA+ strings (sequences of characters); the text helpers are  *)
(* written with Len, SubSeq and \o only, as the Python code computes them. *)
(***************************************************************************)
EXTENDS Integers, Sequences, FiniteSets, TLC

(***************************************************************************)
(* Characters and elementary string operations (Python str methods).      *)
(***************************************************************************)
LowerChars == "abcdefghijklmnopqrstuvwxyz"
UpperChars == "ABCDEFGHIJKLMNOPQRSTUVWXYZ"
DigitChars == "0123456789"

Ch(s, i) == SubSeq(s, i, i)

CharSet(s) == {Ch(s, i) : i \in 1..Len(s)}

LowerSet == CharSet(LowerChars)
UpperSet == CharSet(UpperChars)
DigitSet == CharSet(DigitChars)

\* \s of the re module, restricted to the ASCII whitespace the model uses
SpaceChars == {" ", "\t", "\n"}
IsSpace(c) == c \in SpaceChars

\* [a-z0-9]
IsLowerAlnum(c) == c \in LowerSet \cup DigitSet

SetMin(S) == CHOOSE m \in S : \A k \in S : m <= k
\* the greatest element, found as the least of the negated elements
SetMax(S) == 0 - SetMin({0 - k : k \in S})

lower_char(c) ==
    IF c \in UpperSet
    THEN Ch(LowerChars, CHOOSE i \in 1..Len(UpperChars) : Ch(UpperChars, i) = c)
    ELSE c

upper_char(c) ==
    IF c \in LowerSet
    THEN Ch(UpperChars, CHOOSE i \in 1..Len(LowerChars) : Ch(LowerChars, i) = c)
    ELSE c

\* str.lower()
RECURSIVE lower(_)
lower(s) ==
    IF Len(s) = 0 THEN ""
    ELSE IF Len(s) = 1 THEN lower_char(s)
    ELSE lower(SubSeq(s, 1, Len(s) \div 2)) \o lower(SubSeq(s, (Len(s) \div 2) + 1, Len(s)))

\* a local variable of the code: value is computed once and named in Body
Let(value, Body(_)) == Body(value)

\* str.strip(chars): drop leading and trailing characters of the set
strip_chars(s, chars) ==
    Let({i \in 1..Len(s) : Ch(s, i) \notin chars}, LAMBDA kept :
        IF kept = {} THEN "" ELSE SubSeq(s, SetMin(kept), SetMax(kept)))

\* str.rstrip(chars)
rstrip_chars(s, chars) ==
    Let({i \in 1..Len(s) : Ch(s, i) \notin chars}, LAMBDA kept :
        IF kept = {} THEN "" ELSE SubSeq(s, 1, SetMax(kept)))

\* str.strip()
strip(s) == strip_chars(s, SpaceChars)

\* str.rstrip()
rstrip(s) == rstrip_chars(s, SpaceChars)

\* needle in hay
Contains(hay, needle) ==
    \E i \in 1..(Len(hay) - Len(needle) + 1) :
        SubSeq(hay, i, i + Len(needle) - 1) = needle

\* str.startswith
StartsWith(s, prefix) ==
    /\ Len(prefix) <= Len(s)
    /\ SubSeq(s, 1, Len(prefix)) = prefix

\* s[:n]
Prefix(s, n) == IF n >= Len(s) THEN s ELSE IF n <= 0 THEN "" ELSE SubSeq(s, 1, n)

\* s[n:]  (n is the 0-based Python index)
Suffix(s, n) == IF n >= Len(s) THEN "" ELSE SubSeq(s, n + 1, Len(s))

\* sep.join(parts)
RECURSIVE Join(_, _)
Join(parts, sep) ==
    IF Len(parts) = 0 THEN ""
    ELSE IF Len(parts) = 1 THEN parts[1]
    ELSE parts[1] \o sep \o Join(Tail(parts), sep)

\* n copies of s
RECURSIVE Rep(_, _)
Rep(s, n) ==
    IF n <= 0 THEN ""
    ELSE IF n = 1 THEN s
    ELSE Rep(s, n \div 2) \o Rep(s, n - (n \div 2))

\* the elements of a finite set of integers, ascending
SortedSeq(S) ==
    [k \in 1..Cardinality(S) |-> CHOOSE m \in S : Cardinality({e \in S : e <= m}) = k]

\* re.sub(r"\s+", " ", str(text or "")).strip()
RECURSIVE collapse_ws(_, _, _)
collapse_ws(s, lo, hi) ==
    IF lo > hi THEN ""
    ELSE IF lo = hi
         THEN IF ~IsSpace(Ch(s, lo)) THEN Ch(s, lo)
              ELSE IF lo > 1 /\ ~IsSpace(Ch(s, lo - 1)) THEN " " ELSE ""
         ELSE collapse_ws(s, lo, (lo + hi) \div 2)
              \o collapse_ws(s, ((lo + hi) \div 2) + 1, hi)

normalize_ws(text) == strip(collapse_ws(text, 1, Len(text)))

\* re.findall(r"[a-z0-9]+", text): the maximal runs, in order
findall_alnum(text) ==
    Let(SortedSeq({i \in 1..Len(text) :
                      /\ IsLowerAlnum(Ch(text, i))
                      /\ (i = 1 \/ ~IsLowerAlnum(Ch(text, i - 1)))}),
        LAMBDA starts :
            [k \in 1..Len(starts) |->
                SubSeq(text, starts[k],
                       SetMin({j \in starts[k]..Len(text) :
                                  j = Len(text) \/ ~IsLowerAlnum(Ch(text, j + 1))}))])

SeqToSet(q) == {q[i] : i \in 1..Len(q)}

(***************************************************************************)
(* Duplicate detector and URL helper (cybersecurity_autopost.py).          *)
(***************************************************************************)
STOPWORDS ==
    {"about", "after", "again", "against", "also", "and", "are", "been",
     "before", "being", "between", "could", "during", "from", "have", "into",
     "more", "most", "over", "that", "their", "them", "then", "there", "these",
     "they", "this", "through", "under", "using", "what", "when", "where",
     "which", "with", "your"}

\* re.sub(r"[^a-z0-9]+", " ", text.lower()), then whitespace collapsed, stripped
RECURSIVE non_alnum_to_space(_)
non_alnum_to_space(s) ==
    IF Len(s) = 0 THEN ""
    ELSE IF Len(s) = 1 THEN (IF IsLowerAlnum(s) THEN s ELSE " ")
    ELSE non_alnum_to_space(SubSeq(s, 1, Len(s) \div 2))
         \o non_alnum_to_space(SubSeq(s, (Len(s) \div 2) + 1, Len(s)))

normalize_title(text) == normalize_ws(non_alnum_to_space(lower(text)))

title_tokens(text) ==
    {t \in SeqToSet(findall_alnum(lower(text))) : Len(t) > 2 /\ t \notin STOPWORDS}

\* the similarity is a float in the code; it is kept here as the fraction
\* num/den (0/1 is the 0.0 returned when a side is empty)
jaccard_similarity(left, right) ==
    IF left = {} \/ right = {}
    THEN [num |-> 0, den |-> 1]
    ELSE [num |-> Cardinality(left \cap right), den |-> Cardinality(left \cup right)]

SimilarityThresholdPercent == 72

\* a faulty near_duplicate_title: the comparison of the normalized titles is
\* missing, only the token sets are compared
near_duplicate_title_by_tokens(new_title, existing_titles) ==
    \E k \in 1..Len(existing_titles) :
        Let(jaccard_similarity(title_tokens(new_title), title_tokens(existing_titles[k])),
            LAMBDA score : 100 * score.num >= SimilarityThresholdPercent * score.den)

near_duplicate_title(new_title, existing_titles) ==
    Let(normalize_title(new_title), LAMBDA normalized_new :
    Let(title_tokens(new_title), LAMBDA new_tokens :
        \E k \in 1..Len(existing_titles) :
            \/ normalized_new = normalize_title(existing_titles[k])
            \/ Let(jaccard_similarity(new_tokens, title_tokens(existing_titles[k])),
                   LAMBDA score :
                       100 * score.num >= SimilarityThresholdPercent * score.den)))

normalize_candidate_name(name) == normalize_title(name)

IsSchemeChar(c) == c \in LowerSet \cup UpperSet \cup DigitSet \cup {"+", "-", "."}

\* urlparse(url).netloc: the text between "scheme://" and the next "/", "?", "#"
url_netloc(url) ==
    Let(strip(url), LAMBDA u :
    Let({i \in 1..Len(u) : Ch(u, i) = ":"}, LAMBDA colons :
    Let(IF /\ colons # {}
           /\ SetMin(colons) > 1
           /\ Ch(u, 1) \in LowerSet \cup UpperSet
           /\ \A i \in 1..(SetMin(colons) - 1) : IsSchemeChar(Ch(u, i))
        THEN Suffix(u, SetMin(colons))
        ELSE u, LAMBDA rest :
    Let({i \in 3..Len(rest) : Ch(rest, i) \in {"/", "?", "#"}}, LAMBDA ends :
        IF StartsWith(rest, "//")
        THEN IF ends = {} THEN Suffix(rest, 2) ELSE SubSeq(rest, 3, SetMin(ends) - 1)
        ELSE ""))))

domain_from_url(url) ==
    Let(strip(lower(url_netloc(url))), LAMBDA host :
        IF StartsWith(host, "www.") THEN Suffix(host, 4) ELSE host)

(***************************************************************************)
(* Text normalizer (cybersecurity_autopost.py).                            *)
(***************************************************************************)
DefaultSlug == "nepal-election-candidate-profile"
DefaultKeyphrase == "nepal election candidate profile"
SlugMaxChars == 120
MetaTitleMin == 45
MetaTitleMax == 65
MetaDescriptionMin == 130
MetaDescriptionMax == 170

TrailingPunctChars == {" ", ",", ";", ":", "-"}
HyphenChars == {"-"}

trim_to_max_chars(text0, max_chars) ==
    Let(normalize_ws(text0), LAMBDA text :
        IF Len(text) <= max_chars THEN text
        ELSE Let(rstrip(Prefix(text, max_chars)), LAMBDA clipped :
             Let({i \in 1..Len(clipped) : Ch(clipped, i) = " "}, LAMBDA spaces :
                 \* clipped.rsplit(" ", 1)[0], then rstrip(" ,;:-")
                 rstrip_chars(IF spaces # {}
                              THEN Prefix(clipped, SetMax(spaces) - 1)
                              ELSE clipped,
                              TrailingPunctChars))))

trim_slug(slug, max_chars) ==
    Let(Join(findall_alnum(lower(normalize_ws(slug))), "-"), LAMBDA normalized :
    Let(strip_chars(trim_to_max_chars(normalized, max_chars), HyphenChars), LAMBDA trimmed :
        IF trimmed # "" THEN trimmed ELSE DefaultSlug))

Pad == " Stay updated with key risks, practical defenses, and actionable mitigation guidance."

\* the while loop of expand_to_min_chars; an iteration that leaves the text
\* unchanged repeats for ever, which is reported as returns = FALSE
RECURSIVE pad_loop(_, _)
pad_loop(text, min_chars) ==
    IF Len(text) >= min_chars THEN [returns |-> TRUE, text |-> text]
    ELSE Let(strip(text \o Prefix(Pad, min_chars - Len(text))), LAMBDA next :
             IF next = text THEN [returns |-> FALSE, text |-> text]
             ELSE pad_loop(next, min_chars))

\* expand_to_min_chars as a record: returns = FALSE when the call never returns
expand_to_min_chars(text0, min_chars, max_chars, fallback0) ==
    Let(normalize_ws(text0), LAMBDA text :
    Let(normalize_ws(fallback0), LAMBDA fallback :
        IF Len(text) >= min_chars
        THEN [returns |-> TRUE, text |-> trim_to_max_chars(text, max_chars)]
        ELSE Let(pad_loop(IF fallback # "" /\ ~Contains(lower(text), lower(fallback))
                          THEN strip(text \o (IF text # "" THEN " " ELSE "") \o fallback)
                          ELSE text,
                          min_chars),
                 LAMBDA padded :
                     IF padded.returns
                     THEN [returns |-> TRUE,
                           text |-> trim_to_max_chars(padded.text, max_chars)]
                     ELSE padded)))

\* str.title(): a letter after a non-letter is upper-cased, any other lower-cased
RECURSIVE title_range(_, _, _)
title_range(s, lo, hi) ==
    IF lo > hi THEN ""
    ELSE IF lo = hi
         THEN IF lo = 1 \/ Ch(s, lo - 1) \notin LowerSet \cup UpperSet
              THEN upper_char(Ch(s, lo))
              ELSE lower_char(Ch(s, lo))
         ELSE title_range(s, lo, (lo + hi) \div 2)
              \o title_range(s, ((lo + hi) \div 2) + 1, hi)

title_case(s) == title_range(s, 1, Len(s))

ColonSpaceChars == {":", " "}

FirstN(q, n) == IF Len(q) <= n THEN q ELSE SubSeq(q, 1, n)

\* normalize_seo_fields as a record: returns = FALSE when a call of
\* expand_to_min_chars never returns, else payload is the normalized draft
normalize_seo_fields(payload) ==
    IF payload.status # "publish" THEN [returns |-> TRUE, payload |-> payload]
    ELSE
    Let(payload.seo, LAMBDA seo :
    Let(normalize_ws(payload.title), LAMBDA title :
    Let(normalize_ws(payload.excerpt), LAMBDA excerpt :
    Let(normalize_ws(seo.focus_keyphrase), LAMBDA given_keyphrase :
    Let(Join(FirstN(SelectSeq(findall_alnum(lower(title)), LAMBDA w : Len(w) > 2), 4), " "),
        LAMBDA title_keyphrase :
    Let(IF given_keyphrase # "" THEN given_keyphrase
        ELSE IF title_keyphrase # "" THEN title_keyphrase ELSE DefaultKeyphrase,
        LAMBDA focus_keyphrase :
    Let(normalize_ws(seo.meta_title), LAMBDA given_meta_title :
    Let(IF given_meta_title # "" THEN given_meta_title ELSE title, LAMBDA meta_title0 :
    Let(expand_to_min_chars(
            IF ~Contains(lower(meta_title0), lower(focus_keyphrase))
            THEN strip(title_case(focus_keyphrase) \o ": " \o meta_title0)
            ELSE meta_title0,
            MetaTitleMin, MetaTitleMax, title),
        LAMBDA meta_title :
    Let(normalize_ws(seo.meta_description), LAMBDA given_meta_description :
    Let(IF given_meta_description # "" THEN given_meta_description ELSE excerpt,
        LAMBDA meta_description0 :
    Let(expand_to_min_chars(
            IF ~Contains(lower(meta_description0), lower(focus_keyphrase))
            THEN strip_chars(focus_keyphrase \o ": " \o meta_description0, ColonSpaceChars)
            ELSE meta_description0,
            MetaDescriptionMin, MetaDescriptionMax,
            IF excerpt # "" THEN excerpt ELSE title),
        LAMBDA meta_description :
    Let(trim_slug(payload.slug, SlugMaxChars), LAMBDA slug :
    Let(Join(findall_alnum(lower(focus_keyphrase)), "-"), LAMBDA focus_slug :
    Let(IF focus_slug # "" /\ ~Contains(slug, focus_slug)
        THEN trim_slug(Join(SelectSeq(<<focus_slug, slug>>, LAMBDA part : part # ""), "-"),
                       SlugMaxChars)
        ELSE slug,
        LAMBDA final_slug :
        IF ~meta_title.returns \/ ~meta_description.returns
        THEN [returns |-> FALSE, payload |-> payload]
        ELSE [returns |-> TRUE,
              payload |->
                [payload EXCEPT
                    !.seo = [focus_keyphrase |-> focus_keyphrase,
                             meta_title |-> meta_title.text,
                             meta_description |-> meta_description.text,
                             \* line 366 sets the hint, line 377 overwrites it
                             seo_slug_hint |-> final_slug],
                    !.slug = final_slug]])))))))))))))))

(***************************************************************************)
(* Validation engine (cybersecurity_autopost.py, validate_payload).        *)
(* A draft is a record with the fields of the JSON payload; a field that   *)
(* is missing in the JSON is the empty string or the empty sequence.       *)
(***************************************************************************)
TitleMinChars == 24
ExcerptMinChars == 110
ContentMinChars == 1800
MinTopicKeywords == 3
MinFaqQuestions == 3
TargetElectionDate == "2026-03-05"

\* one-element or empty list of violations
Err(cond, msg) == IF cond THEN <<msg>> ELSE <<>>

\* re.fullmatch(r"[a-z0-9]+(?:-[a-z0-9]+)*", slug)
is_kebab_case(slug) ==
    /\ Len(slug) > 0
    /\ \A i \in 1..Len(slug) : IsLowerAlnum(Ch(slug, i)) \/ Ch(slug, i) = "-"
    /\ Ch(slug, 1) # "-"
    /\ Ch(slug, Len(slug)) # "-"
    /\ ~Contains(slug, "--")

\* len(re.findall(r"<h3[^>]*>.*?\?</h3>", content_html, IGNORECASE | DOTALL)):
\* the non-overlapping matches, leftmost first, counted from position p
RECURSIVE count_h3_questions(_, _, _, _)
count_h3_questions(opens, gts, closes, p) ==
    LET GtOf(i) == SetMin({j \in gts : j >= i + 3})
        Matches(i) == /\ \E j \in gts : j >= i + 3
                      /\ \E k \in closes : k > GtOf(i)
        EndOf(i) == SetMin({k \in closes : k > GtOf(i)}) + 5
    IN  Let({i \in opens : i >= p /\ Matches(i)}, LAMBDA starts :
            IF starts = {} THEN 0
            ELSE 1 + count_h3_questions(opens, gts, closes, EndOf(SetMin(starts)) + 1))

faq_question_count(content_html) ==
    Let(lower(content_html), LAMBDA ls :
        count_h3_questions({i \in 1..(Len(ls) - 2) : SubSeq(ls, i, i + 2) = "<h3"},
                           {i \in 1..Len(ls) : Ch(ls, i) = ">"},
                           {i \in 1..(Len(ls) - 5) : SubSeq(ls, i, i + 5) = "?</h3>"},
                           1))

SlashChars == {"/"}

\* the loop over key_facts, from entry index on
RECURSIVE key_fact_errors(_, _, _)
key_fact_errors(key_facts, index, min_confidence) ==
    IF index > Len(key_facts) THEN <<>>
    ELSE Let(key_facts[index], LAMBDA fact :
         Let("key_facts[" \o ToString(index) \o "]", LAMBDA name :
             (IF ~fact.confidence.numeric
              THEN <<name \o " confidence is not numeric.">>
              ELSE Err(Len(fact.supporting_source_urls) < 2,
                       name \o " must have at least 2 supporting_source_urls.")
                   \o Err(fact.confidence.value < min_confidence,
                          name \o " confidence " \o ToString(fact.confidence.value)
                               \o " is below minimum " \o ToString(min_confidence) \o "."))
             \o key_fact_errors(key_facts, index + 1, min_confidence)))

\* lines 414-442: title, slug, excerpt, topic_keywords and content_html
head_errors(payload, existing_titles) ==
    Let(strip(payload.title), LAMBDA title :
    Let(strip(payload.slug), LAMBDA slug :
    Let(strip(payload.excerpt), LAMBDA excerpt :
    Let(strip(payload.content_html), LAMBDA content_html :
        (IF title = "" THEN <<"Missing title.">>
         ELSE IF Len(title) < TitleMinChars THEN <<"Title is too short.">>
         ELSE Err(near_duplicate_title(title, existing_titles),
                  "Generated title appears to duplicate an existing topic."))
        \o Err(~is_kebab_case(slug), "Slug must be kebab-case.")
        \o Err(Len(excerpt) < ExcerptMinChars, "Excerpt is too short.")
        \o Err(Len(payload.topic_keywords) < MinTopicKeywords,
               "Need at least 3 topic_keywords.")
        \o Err(Len(content_html) < ContentMinChars,
               "content_html is too short for the required depth.")
        \o Err(~Contains(lower(content_html), "faq"),
               "content_html must include an FAQ section for SEO.")
        \o Err(faq_question_count(content_html) < MinFaqQuestions,
               "FAQ section should include at least 3 questions in H3 tags.")))))

\* lines 449-453: the set source_urls
source_url_set(sources) ==
    {strip(sources[i].url) : i \in {j \in 1..Len(sources) :
                                      StartsWith(strip(sources[j].url), "http")}}

\* lines 455-460: the set unique_domains
unique_domain_set(sources) ==
    {d \in {Let(lower(strip(sources[i].domain)), LAMBDA domain :
                IF domain # "" THEN domain ELSE domain_from_url(sources[i].url)) :
            i \in 1..Len(sources)} : d # ""}

source_errors_from_domain_count(sources, unique_domains, min_sources) ==
    Err(Cardinality(unique_domains) < min_sources,
        "Need at least " \o ToString(min_sources) \o " sources; found "
            \o ToString(Len(sources)) \o ".")
    \o Err(Cardinality(unique_domains) < min_sources,
           "Need at least " \o ToString(min_sources)
               \o " unique source domains; found "
               \o ToString(Cardinality(unique_domains)) \o ".")

\* lines 447-448 and 461-464
source_errors(sources, unique_domains, min_sources) ==
    Err(Len(sources) < min_sources,
        "Need at least " \o ToString(min_sources) \o " sources; found "
            \o ToString(Len(sources)) \o ".")
    \o Err(Cardinality(unique_domains) < min_sources,
           "Need at least " \o ToString(min_sources)
               \o " unique source domains; found "
               \o ToString(Cardinality(unique_domains)) \o ".")

\* lines 473-511: the candidate_profile fields
profile_errors(cp, source_urls, unique_domains) ==
    Let(normalize_ws(cp.election_name), LAMBDA election_name :
    Let(normalize_ws(cp.profile_source_url), LAMBDA profile_source_url :
    Let(normalize_ws(cp.profile_image_url), LAMBDA profile_image_url :
    Let(normalize_ws(cp.profile_image_source_url), LAMBDA profile_image_source_url :
        Err(Len(normalize_ws(cp.candidate_name)) < 4,
            "candidate_profile.candidate_name is too short.")
        \o Err(Len(election_name) < 8, "candidate_profile.election_name is too short.")
        \o Err(~Contains(lower(election_name), "nepal"),
               "candidate_profile.election_name should reference Nepal.")
        \o Err(normalize_ws(cp.election_date) # TargetElectionDate,
               "candidate_profile.election_date must be 2026-03-05.")
        \o Err(Len(normalize_ws(cp.party)) < 2, "candidate_profile.party is too short.")
        \o Err(Len(normalize_ws(cp.constituency)) < 2,
               "candidate_profile.constituency is too short.")
        \o Err(Len(normalize_ws(cp.current_position)) < 2,
               "candidate_profile.current_position is too short.")
        \o Err(Len(normalize_ws(cp.short_bio)) < 60,
               "candidate_profile.short_bio is too short.")
        \o Err(~StartsWith(profile_source_url, "http"),
               "candidate_profile.profile_source_url must be a valid URL.")
        \o Err(/\ profile_source_url # ""
               /\ rstrip_chars(profile_source_url, SlashChars)
                      \notin {rstrip_chars(u, SlashChars) : u \in source_urls}
               /\ domain_from_url(profile_source_url) \notin unique_domains,
               "candidate_profile.profile_source_url must be included in sources.")
        \o Err(profile_image_url # "" /\ ~StartsWith(profile_image_url, "http"),
               "candidate_profile.profile_image_url must be a valid URL when provided.")
        \o Err(/\ profile_image_source_url # ""
               /\ ~StartsWith(profile_image_source_url, "http"),
               "candidate_profile.profile_image_source_url must be a valid URL when provided.")))))

\* lines 513-524: the candidate is new and is named in the texts
candidate_errors(payload, existing_candidates) ==
    Let(normalize_ws(payload.candidate_profile.candidate_name), LAMBDA candidate_name :
    Let({t \in title_tokens(candidate_name) : Len(t) >= 3}, LAMBDA candidate_tokens :
        Err(/\ candidate_name # ""
            /\ normalize_candidate_name(candidate_name)
                   \in {normalize_candidate_name(existing_candidates[i]) :
                           i \in 1..Len(existing_candidates)},
            "Candidate has already been profiled in earlier posts.")
        \o (IF candidate_tokens = {} THEN <<>>
            ELSE LET InText(text) ==
                        Let(lower(strip(text)), LAMBDA lowered :
                            Cardinality({t \in candidate_tokens : Contains(lowered, t)}))
                 IN  Err(InText(payload.title) < 1, "Title should include candidate name.")
                     \o Err(InText(payload.excerpt) < 1,
                            "Excerpt should include candidate name.")
                     \o Err(InText(payload.content_html) < 2,
                            "content_html should include candidate context clearly."))))

\* lines 526-559: the seo block
seo_errors(payload) ==
    Let(payload.seo, LAMBDA seo :
    Let(strip(payload.slug), LAMBDA slug :
    Let(lower(strip(seo.focus_keyphrase)), LAMBDA focus_keyphrase :
    Let(strip(seo.meta_title), LAMBDA meta_title :
    Let(strip(seo.meta_description), LAMBDA meta_description :
    Let(Join(findall_alnum(focus_keyphrase), "-"), LAMBDA focus_slug :
    Let(Join(findall_alnum(lower(strip(seo.seo_slug_hint))), "-"), LAMBDA normalized_hint :
        Err(Len(focus_keyphrase) < 8, "seo.focus_keyphrase is too short.")
        \o Err(~(MetaTitleMin <= Len(meta_title) /\ Len(meta_title) <= MetaTitleMax),
               "seo.meta_title should be between 45 and 65 characters.")
        \o Err(~(/\ MetaDescriptionMin <= Len(meta_description)
                 /\ Len(meta_description) <= MetaDescriptionMax),
               "seo.meta_description should be between 130 and 170 characters.")
        \o (IF focus_keyphrase = "" THEN <<>>
            ELSE LET Lacks(text) == ~Contains(lower(strip(text)), focus_keyphrase)
                 IN  Err(Lacks(payload.title), "Title should include seo.focus_keyphrase.")
                     \o Err(Lacks(payload.excerpt),
                            "Excerpt should include seo.focus_keyphrase.")
                     \o Err(Lacks(payload.content_html),
                            "content_html should include seo.focus_keyphrase.")
                     \o Err(Lacks(meta_title),
                            "seo.meta_title should include seo.focus_keyphrase.")
                     \o Err(Lacks(meta_description),
                            "seo.meta_description should include seo.focus_keyphrase.")
                     \o Err(focus_slug # "" /\ ~Contains(slug, focus_slug),
                            "Slug should include the focus keyphrase in kebab-case."))
        \o Err(normalized_hint # "" /\ normalized_hint # slug,
               "seo.seo_slug_hint should align with the final slug."))))))))

\* lines 561-581
fact_errors(key_facts, min_confidence) ==
    IF Len(key_facts) = 0
    THEN <<"key_facts must be a non-empty list.">>
    ELSE key_fact_errors(key_facts, 1, min_confidence)

\* lines 414-581: the rules for a publish draft
publish_errors(payload, existing_titles, existing_candidates, min_sources, min_confidence) ==
    head_errors(payload, existing_titles)
    \o (IF ~payload.sources_is_list
        THEN <<"sources must be a list.">>
        ELSE Let(unique_domain_set(payload.sources), LAMBDA unique_domains :
                 source_errors(payload.sources, unique_domains, min_sources)
                 \o profile_errors(payload.candidate_profile,
                                   source_url_set(payload.sources), unique_domains)
                 \o candidate_errors(payload, existing_candidates)
                 \o seo_errors(payload)
                 \o fact_errors(payload.key_facts, min_confidence)))

\* a faulty validate_payload: the early return of the skip branch is missing
validate_payload_skip_falls_through(payload, existing_titles, existing_candidates, min_sources, min_confidence) ==
    IF payload.status \notin {"publish", "skip"}
    THEN <<"status must be 'publish' or 'skip'.">>
    ELSE (IF payload.status = "skip"
          THEN Err(strip(payload.reason) = "", "skip payload must include a reason.")
          ELSE <<>>)
         \o publish_errors(payload, existing_titles, existing_candidates,
                           min_sources, min_confidence)

validate_payload(payload, existing_titles, existing_candidates, min_sources, min_confidence) ==
    IF payload.status \notin {"publish", "skip"}
    THEN <<"status must be 'publish' or 'skip'.">>
    ELSE IF payload.status = "skip"
    THEN Err(strip(payload.reason) = "", "skip payload must include a reason.")
    ELSE publish_errors(payload, existing_titles, existing_candidates,
                        min_sources, min_confidence)

(***************************************************************************)
(* The drafts the Generation Service returns in this model, and the corpus *)
(* the Corpus Store returns.                                               *)
(***************************************************************************)
NumSources == 15

EmptyProfile ==
    [candidate_name |-> "", election_name |-> "", election_date |-> "",
     party |-> "", constituency |-> "", current_position |-> "", short_bio |-> "",
     profile_source_url |-> "", profile_image_url |-> "",
     profile_image_source_url |-> ""]

EmptySeo ==
    [focus_keyphrase |-> "", meta_title |-> "", meta_description |-> "",
     seo_slug_hint |-> ""]

\* "safe empty values" in every field (build_prompt, rule 8)
EmptyDraft ==
    [is_object |-> TRUE, status |-> "skip", reason |-> "", title |-> "", slug |-> "",
     excerpt |-> "", topic_keywords |-> <<>>, content_html |-> "",
     sources_is_list |-> TRUE, sources |-> <<>>,
     candidate_profile |-> EmptyProfile, seo |-> EmptySeo, key_facts |-> <<>>]

SourceAt(i, ndomains) ==
    [url |-> "https://news" \o ToString(((i - 1) % ndomains) + 1)
                 \o ".example.org/story/" \o ToString(i),
     domain |-> ""]

SourcesOver(ndomains) == [i \in 1..NumSources |-> SourceAt(i, ndomains)]

ValidContent ==
    "<h2>Sita Gurung candidate profile</h2><p>Sita Gurung is a candidate in the Nepal "
    \o "general election of 2026.</p>"
    \o Rep("<p>Gurung has worked on local roads, schools and drinking water projects "
           \o "in the hill districts for more than ten years.</p>", 14)
    \o "<h2>FAQ</h2>"
    \o "<h3>Who is Sita Gurung?</h3><p>A candidate for the House of Representatives.</p>"
    \o "<h3 class='q'>Which party does she represent?</h3><p>The Example Party.</p>"
    \o "<h3>When is the election?</h3><p>On 5 March 2026.</p>"

ValidDraft ==
    [is_object |-> TRUE,
     status |-> "publish",
     reason |-> "",
     title |-> "Sita Gurung candidate profile: Nepal election 2026",
     slug |-> "sita-gurung-candidate-profile-nepal-election-2026",
     excerpt |-> "Sita Gurung candidate profile for the Nepal election on 5 March 2026: "
                 \o "background, career timeline, policy positions and outlook.",
     topic_keywords |-> <<"nepal election", "sita gurung", "candidate profile">>,
     content_html |-> ValidContent,
     sources_is_list |-> TRUE,
     sources |-> SourcesOver(NumSources),
     candidate_profile |->
        [candidate_name |-> "Sita Gurung",
         election_name |-> "Nepal general election 2026",
         election_date |-> "2026-03-05",
         party |-> "Example Party",
         constituency |-> "Kaski 2",
         current_position |-> "Ward chair",
         short_bio |-> "Sita Gurung is a ward chair from Kaski who has led road and water projects.",
         profile_source_url |-> "https://news1.example.org/story/1",
         profile_image_url |-> "",
         profile_image_source_url |-> ""],
     seo |->
        [focus_keyphrase |-> "Sita Gurung candidate profile",
         meta_title |-> "Sita Gurung candidate profile - Nepal election 2026",
         meta_description |->
            "Sita Gurung candidate profile for the Nepal election of 5 March 2026, "
            \o "with her background, political career, policy positions and electoral outlook.",
         seo_slug_hint |-> "sita-gurung-candidate-profile"],
     key_facts |->
        <<[confidence |-> [numeric |-> TRUE, value |-> 92],
           supporting_source_urls |-> <<"https://news1.example.org/story/1",
                                        "https://news2.example.org/story/2">>],
          [confidence |-> [numeric |-> TRUE, value |-> 88],
           supporting_source_urls |-> <<"https://news3.example.org/story/3",
                                        "https://news4.example.org/story/4">>]>>]

ExistingTitles ==
    <<"Ram Thapa candidate profile: Nepal election 2026",
      "How Nepal votes: the 2026 ballot explained">>

ExistingCandidates == <<"Ram Thapa", "Maya  K.C.">>

DefaultMinSources == 12
DefaultMinConfidence == 85

Drafts ==
    [valid |-> ValidDraft,
     skip |-> [EmptyDraft EXCEPT !.reason = "No candidate could be verified."],
     skip_blank |-> [EmptyDraft EXCEPT !.reason = "  "],
     few_domains |-> [ValidDraft EXCEPT !.sources = SourcesOver(5)],
     other_status |-> [ValidDraft EXCEPT !.status = "draft"],
     known_candidate |->
        [ValidDraft EXCEPT !.candidate_profile.candidate_name = "RAM  thapa"],
     not_object |-> [EmptyDraft EXCEPT !.is_object = FALSE]]

DraftIds == DOMAIN Drafts

(***************************************************************************)
(* gemini_autopost.py: its own normalizer, validator and retry policy.     *)
(***************************************************************************)
GeminiDefaultKeyphrase == "nepal election candidate"
GeminiDefaultMinSources == 8

\* gemini_autopost.trim_slug: cut at 120 characters, no default slug
g_trim_slug(slug) ==
    strip_chars(Prefix(Join(findall_alnum(lower(normalize_ws(slug))), "-"), SlugMaxChars),
                HyphenChars)

g_normalize_seo_fields(payload) ==
    IF payload.status # "publish" THEN payload
    ELSE Let(normalize_ws(payload.seo.focus_keyphrase), LAMBDA given_keyphrase :
         Let(IF given_keyphrase # "" THEN given_keyphrase ELSE GeminiDefaultKeyphrase,
             LAMBDA focus_keyphrase :
             [payload EXCEPT
                !.seo.focus_keyphrase = focus_keyphrase,
                !.slug = g_trim_slug(IF payload.slug # "" THEN payload.slug
                                     ELSE focus_keyphrase)]))

g_validate_payload(payload, titles, candidates, min_sources) ==
    IF payload.status = "skip"
    THEN Err(payload.reason = "", "Skip reason missing")
    ELSE LET cand_name == lower(payload.candidate_profile.candidate_name)
             srcs == payload.sources
             domains == {domain_from_url(srcs[i].url) : i \in 1..Len(srcs)}
         IN  Err(\E k \in 1..Len(candidates) : Contains(lower(candidates[k]), cand_name),
                 "Candidate already exists")
             \o Err(Cardinality(domains) < min_sources,
                    "Not enough unique sources (found " \o ToString(Len(srcs)) \o ")")

MaxRetries == 3
BaseWait == 30

\* a faulty backoff: the same wait after every attempt
backoff_wait_flat(attempt) == BaseWait

\* wait_time = base_wait * (attempt + 1), attempt counted from 0
backoff_wait(attempt) == BaseWait * (attempt + 1)

\* a faulty retry policy: every failure is retried like a rate-limit signal
retry_decision_retries_all(attempt, response) ==
    IF response = "ok" THEN [do |-> "return", wait |-> 0]
    ELSE IF attempt < MaxRetries - 1
         THEN [do |-> "sleep", wait |-> BaseWait * (attempt + 1)]
         ELSE [do |-> "raise", wait |-> 0]

\* What one pass of the for loop of run_gemini does with the SDK's response
\* to attempt number `attempt` (0-based): return the decoded draft, sleep and
\* continue, or raise RuntimeError.
retry_decision(attempt, response) ==
    CASE response = "ok" -> [do |-> "return", wait |-> 0]
      [] response = "rate_limit" ->
            IF attempt < MaxRetries - 1
            THEN [do |-> "sleep", wait |-> backoff_wait(attempt)]
            ELSE [do |-> "raise", wait |-> 0]
      [] OTHER -> [do |-> "raise", wait |-> 0]

\* ClientError 429, another ClientError, empty response.text, json.loads
\* failing, or a call that never returns (no timeout is passed to the SDK)
GeminiResponses == {"ok", "rate_limit", "client_error", "empty_text", "bad_json", "hang"}

(***************************************************************************)
(* Bounded external call (cybersecurity_autopost.run_command and           *)
(* gemini_autopost.run_command).                                           *)
(***************************************************************************)
\* how the child process behaves: exits 0 with usable output, exits 0 with
\* output the caller cannot decode, exits non-zero, or never exits
ChildBehaviours == {"exit0", "exit0_bad_output", "nonzero", "hang"}

\* run_command(args, timeout_seconds = None | n): "returned", "raised", or
\* "blocked" when communicate() waits for ever
run_command(child, has_timeout) ==
    CASE child \in {"exit0", "exit0_bad_output"} -> "returned"
      [] child = "nonzero" -> "raised"
      [] child = "hang" -> IF has_timeout THEN "raised" ELSE "blocked"

\* the caller's view: json.loads / isinstance checks on the output
call_result(child, has_timeout) ==
    LET r == run_command(child, has_timeout)
    IN  IF r = "returned" /\ child = "exit0_bad_output" THEN "raised" ELSE r

(***************************************************************************)
(* What the pure part of main computes from a draft the generation call    *)
(* returned: lines 763-774 of cybersecurity_autopost.py and lines 241-242  *)
(* of gemini_autopost.py.  The corpus queries return ExistingTitles and    *)
(* ExistingCandidates; min_sources and min_confidence have their defaults. *)
(***************************************************************************)
CyberPipeline(d) ==
    Let(normalize_seo_fields(Drafts[d]), LAMBDA n :
        [is_object |-> n.payload.is_object,
         returns |-> n.returns,
         status |-> n.payload.status,
         errors |-> validate_payload(n.payload, ExistingTitles, ExistingCandidates,
                                     DefaultMinSources, DefaultMinConfidence)])

GeminiPipeline(d) ==
    Let(g_normalize_seo_fields(Drafts[d]), LAMBDA n :
        [is_object |-> n.is_object,
         returns |-> TRUE,
         status |-> n.status,
         errors |-> g_validate_payload(n, ExistingTitles, ExistingCandidates,
                                       GeminiDefaultMinSources)])

(***************************************************************************)
(* Run coordinator: state.                                                 *)
(***************************************************************************)
CyberRuns == {"c1", "c2"}
GeminiRuns == {"g1", "g2"}
Runs == CyberRuns \cup GeminiRuns

\* the clock counts in units of the staleness comparison; a marker older
\* than StaleAfter units is stale (stale_after_minutes * 60 seconds)
MaxClock == 4
StaleAfter == 2

NoFile == [exists |-> FALSE, mtime |-> 0, pid |-> "none"]
NoCalls == [corpus |-> 0, generation |-> 0, insertion |-> 0]

\* the arguments of one call of validate_payload, and its result
ValidateCall(payload, existing_titles, existing_candidates, min_sources, min_confidence) ==
    [payload |-> payload, existing_titles |-> existing_titles,
     existing_candidates |-> existing_candidates,
     min_sources |-> min_sources, min_confidence |-> min_confidence]

NoInput == ValidateCall(EmptyDraft, <<>>, <<>>, 0, 0)
NotComputed == [done |-> FALSE, errors |-> <<>>]

VARIABLES
    now,            \* dt.datetime.now().timestamp()
    lock_file,      \* LOCK_PATH: existence, st_mtime and the pid written in it
    pc,             \* where each run is in main
    lock_acquired,  \* main's local flag
    marker_at_start,\* history: the marker a run found when it started
    payload_id,     \* the id of the draft the generation call returned
    is_normalized,  \* normalize_seo_fields has returned
    is_validated,   \* validate_payload has returned
    errors,         \* the violation list
    dry_run,        \* args.dry_run
    exit_code,      \* main's return value, -1 while running
    terminal,       \* which return statement ended the run
    calls,          \* collaborator calls made so far, per kind
    attempts,       \* run_gemini: attempts started
    waits,          \* run_gemini: the time.sleep durations so far
    last_response,  \* run_gemini: how the latest attempt ended
    pipeline,       \* per entry point and draft: what the pure functions compute
    fn_input,       \* a direct call of validate_payload: its arguments
    fn_output       \* a direct call of validate_payload: its result

vars == <<now, lock_file, pc, lock_acquired, marker_at_start, payload_id, is_normalized,
          is_validated, errors, dry_run, exit_code, terminal, calls, attempts, waits,
          last_response, pipeline, fn_input, fn_output>>

lock_vars == <<now, lock_file, lock_acquired, marker_at_start>>
draft_vars == <<payload_id, is_normalized, is_validated, errors, dry_run>>
retry_vars == <<attempts, waits, last_response>>
fn_vars == <<pipeline, fn_input, fn_output>>
run_vars == <<now, lock_file, pc, lock_acquired, marker_at_start, payload_id,
              is_normalized, is_validated, errors, dry_run, exit_code, terminal, calls,
              attempts, waits, last_response>>

\* no run has started; the marker is absent
RunsInit ==
    /\ now = 0
    /\ lock_file = NoFile
    /\ pc = [r \in Runs |-> IF r \in CyberRuns THEN "acquire_exists" ELSE "g_titles"]
    /\ lock_acquired = [r \in Runs |-> FALSE]
    /\ marker_at_start = [r \in Runs |-> "none"]
    /\ payload_id = [r \in Runs |-> "none"]
    /\ is_normalized = [r \in Runs |-> FALSE]
    /\ is_validated = [r \in Runs |-> FALSE]
    /\ errors = [r \in Runs |-> <<>>]
    /\ dry_run = [r \in Runs |-> FALSE]
    /\ exit_code = [r \in Runs |-> -1]
    /\ terminal = [r \in Runs |-> "none"]
    /\ calls = [r \in Runs |-> NoCalls]
    /\ attempts = [r \in Runs |-> 0]
    /\ waits = [r \in Runs |-> <<>>]
    /\ last_response = [r \in Runs |-> "none"]
    /\ pipeline = [cyber |-> [d \in DraftIds |-> CyberPipeline(d)],
                   gemini |-> [d \in DraftIds |-> GeminiPipeline(d)]]

Init ==
    /\ RunsInit
    /\ fn_input = NoInput
    /\ fn_output = NotComputed

(***************************************************************************)
(* cybersecurity_autopost.main, one action per step.  The schema and the   *)
(* PHP helper scripts are deployed with the script, so the two checks at   *)
(* the head of main pass and the run enters the try block.                 *)
(***************************************************************************)
\* age_seconds > stale_after_minutes * 60
is_stale(mtime, stale_after) == now - mtime > stale_after

\* a return statement inside the try block: the finally clause runs next
Return(r, code, state) ==
    /\ exit_code' = [exit_code EXCEPT ![r] = code]
    /\ terminal' = [terminal EXCEPT ![r] = state]
    /\ pc' = [pc EXCEPT ![r] = "finally"]

\* except LockHeldError: return 0
OnLockHeld(r) == Return(r, 0, "aborted")

\* except Exception: return 1
OnException(r) == Return(r, 1, "failed")

Goto(r, label) ==
    /\ pc' = [pc EXCEPT ![r] = label]
    /\ UNCHANGED <<exit_code, terminal>>

\* a call that returns, raises or never comes back
AfterCall(r, result, label) ==
    CASE result = "returned" -> Goto(r, label)
      [] result = "raised" -> OnException(r)
      [] result = "blocked" -> Goto(r, "blocked")

Called(r, kind) == calls' = [calls EXCEPT ![r][kind] = @ + 1]

\* acquire_lock, line 664: LOCK_PATH.exists(), the first thing a run looks at
AcquireExists(r) ==
    /\ pc[r] = "acquire_exists"
    /\ marker_at_start' =
          [marker_at_start EXCEPT ![r] =
              IF ~lock_file.exists THEN "absent"
              ELSE IF is_stale(lock_file.mtime, StaleAfter) THEN "stale" ELSE "fresh"]
    /\ Goto(r, IF lock_file.exists THEN "acquire_stat" ELSE "acquire_create")
    /\ UNCHANGED <<now, lock_file, lock_acquired, draft_vars, retry_vars, fn_vars, calls>>

\* acquire_lock, lines 665-671: LOCK_PATH.stat() and the age test
AcquireStat(r) ==
    /\ pc[r] = "acquire_stat"
    /\ IF ~lock_file.exists
       THEN OnException(r)          \* FileNotFoundError from stat()
       ELSE IF is_stale(lock_file.mtime, StaleAfter)
            THEN Goto(r, "acquire_unlink")
            ELSE OnLockHeld(r)
    /\ UNCHANGED <<lock_vars, draft_vars, retry_vars, fn_vars, calls>>

\* acquire_lock, line 667: LOCK_PATH.unlink(missing_ok=True)
AcquireUnlink(r) ==
    /\ pc[r] = "acquire_unlink"
    /\ lock_file' = NoFile
    /\ Goto(r, "acquire_create")
    /\ UNCHANGED <<now, lock_acquired, marker_at_start, draft_vars, retry_vars, fn_vars,
                   calls>>

\* acquire_lock, lines 672-674, and main, line 737: os.open with O_EXCL, then
\* the write of the pid line, which may raise OSError after the file exists
AcquireCreate(r) ==
    /\ pc[r] = "acquire_create"
    /\ IF lock_file.exists
       THEN /\ OnException(r)       \* FileExistsError from O_EXCL
            /\ UNCHANGED <<lock_file, lock_acquired>>
       ELSE /\ lock_file' = [exists |-> TRUE, mtime |-> now, pid |-> r]
            /\ \E written \in BOOLEAN :
                  IF written
                  THEN /\ lock_acquired' = [lock_acquired EXCEPT ![r] = TRUE]
                       /\ Goto(r, "titles")
                  ELSE /\ OnException(r)
                       /\ UNCHANGED lock_acquired
    /\ UNCHANGED <<now, marker_at_start, draft_vars, retry_vars, fn_vars, calls>>

\* get_existing_titles: run_command without timeout_seconds
GetExistingTitles(r) ==
    /\ pc[r] = "titles"
    /\ Called(r, "corpus")
    /\ \E child \in ChildBehaviours : AfterCall(r, call_result(child, FALSE), "candidates")
    /\ UNCHANGED <<lock_vars, draft_vars, retry_vars, fn_vars>>

\* get_existing_candidates: run_command without timeout_seconds
GetExistingCandidates(r) ==
    /\ pc[r] = "candidates"
    /\ Called(r, "corpus")
    /\ \E child \in ChildBehaviours : AfterCall(r, call_result(child, FALSE), "codex")
    /\ UNCHANGED <<lock_vars, draft_vars, retry_vars, fn_vars>>

\* run_codex: run_command with timeout_seconds, then json.load of the output
RunCodex(r) ==
    /\ pc[r] = "codex"
    /\ Called(r, "generation")
    /\ \E child \in ChildBehaviours, d \in DraftIds :
          /\ AfterCall(r, call_result(child, TRUE), "normalize")
          /\ payload_id' = [payload_id EXCEPT
                               ![r] = IF call_result(child, TRUE) = "returned" THEN d ELSE @]
    /\ UNCHANGED <<lock_vars, is_normalized, is_validated, errors, dry_run, retry_vars,
                   fn_vars>>

\* main, line 763
NormalizeSeo(r) ==
    /\ pc[r] = "normalize"
    /\ IF ~pipeline.cyber[payload_id[r]].is_object
       THEN /\ OnException(r)       \* payload.get on a JSON value that is no object
            /\ UNCHANGED is_normalized
       ELSE IF ~pipeline.cyber[payload_id[r]].returns
            THEN /\ Goto(r, "looping")
                 /\ UNCHANGED is_normalized
            ELSE /\ is_normalized' = [is_normalized EXCEPT ![r] = TRUE]
                 /\ Goto(r, "debug")
    /\ UNCHANGED <<lock_vars, payload_id, is_validated, errors, dry_run, retry_vars,
                   fn_vars, calls>>

\* save_debug_payload: the write may raise OSError
SaveDebugPayload(r) ==
    /\ pc[r] = "debug"
    /\ \E written \in BOOLEAN : IF written THEN Goto(r, "validate") ELSE OnException(r)
    /\ UNCHANGED <<lock_vars, draft_vars, retry_vars, fn_vars, calls>>

\* main, lines 768-787
Validate(r) ==
    /\ pc[r] = "validate"
    /\ errors' = [errors EXCEPT ![r] = pipeline.cyber[payload_id[r]].errors]
    /\ is_validated' = [is_validated EXCEPT ![r] = TRUE]
    /\ \E dry \in BOOLEAN :
          /\ dry_run' = [dry_run EXCEPT ![r] = dry]
          /\ IF pipeline.cyber[payload_id[r]].errors # <<>> THEN Return(r, 2, "rejected")
             ELSE IF pipeline.cyber[payload_id[r]].status = "skip"
                  THEN Return(r, 0, "skipped")
                  ELSE IF dry THEN Return(r, 0, "dry_run")
                       ELSE Goto(r, "insert")
    /\ UNCHANGED <<lock_vars, payload_id, is_normalized, retry_vars, fn_vars, calls>>

\* insert_post: run_command without timeout_seconds; main, lines 789-791
InsertPost(r) ==
    /\ pc[r] = "insert"
    /\ Called(r, "insertion")
    /\ \E child \in ChildBehaviours :
          CASE call_result(child, FALSE) = "returned" -> Return(r, 0, "accepted")
            [] call_result(child, FALSE) = "raised" -> OnException(r)
            [] call_result(child, FALSE) = "blocked" -> Goto(r, "blocked")
    /\ UNCHANGED <<lock_vars, draft_vars, retry_vars, fn_vars>>

\* a faulty release_lock that leaves the marker where it is
release_lock_keeps_marker == UNCHANGED lock_file

\* release_lock: LOCK_PATH.unlink(missing_ok=True)
release_lock == lock_file' = NoFile

\* main, lines 801-804
Finally(r) ==
    /\ pc[r] = "finally"
    /\ IF lock_acquired[r] THEN release_lock ELSE UNCHANGED lock_file
    /\ pc' = [pc EXCEPT ![r] = "done"]
    /\ UNCHANGED <<now, lock_acquired, marker_at_start, draft_vars, retry_vars, fn_vars,
                   calls, exit_code, terminal>>

\* time passes
Tick ==
    /\ now < MaxClock
    /\ now' = now + 1
    /\ UNCHANGED <<lock_file, pc, lock_acquired, marker_at_start, draft_vars, retry_vars,
                   fn_vars, calls, exit_code, terminal>>

CyberStep(r) ==
    \/ AcquireExists(r)
    \/ AcquireStat(r)
    \/ AcquireUnlink(r)
    \/ AcquireCreate(r)
    \/ GetExistingTitles(r)
    \/ GetExistingCandidates(r)
    \/ RunCodex(r)
    \/ NormalizeSeo(r)
    \/ SaveDebugPayload(r)
    \/ Validate(r)
    \/ InsertPost(r)
    \/ Finally(r)

Next == Tick \/ \E r \in CyberRuns : CyberStep(r)

\* independently scheduled runs of cybersecurity_autopost.main
Spec == Init /\ [][Next]_vars

(***************************************************************************)
(* gemini_autopost.main, one action per step.  --api-key is given, so the  *)
(* check at line 223 passes.  main takes no lock and has no finally        *)
(* clause: a return statement ends the run.                                *)
(***************************************************************************)
GeminiReturn(r, code, state) ==
    /\ exit_code' = [exit_code EXCEPT ![r] = code]
    /\ terminal' = [terminal EXCEPT ![r] = state]
    /\ pc' = [pc EXCEPT ![r] = "done"]

\* except Exception, lines 263-265: return 1
GeminiOnException(r) == GeminiReturn(r, 1, "failed")

GeminiAfterCall(r, result, label) ==
    CASE result = "returned" -> Goto(r, label)
      [] result = "raised" -> GeminiOnException(r)
      [] result = "blocked" -> Goto(r, "blocked")

\* main, line 230: json.loads(run_command(...)), run_command has no timeout
GeminiGetTitles(r) ==
    /\ pc[r] = "g_titles"
    /\ Called(r, "corpus")
    /\ \E child \in ChildBehaviours :
          GeminiAfterCall(r, call_result(child, FALSE), "g_candidates")
    /\ UNCHANGED <<lock_vars, draft_vars, retry_vars, fn_vars>>

\* main, line 231
GeminiGetCandidates(r) ==
    /\ pc[r] = "g_candidates"
    /\ Called(r, "corpus")
    /\ \E child \in ChildBehaviours :
          GeminiAfterCall(r, call_result(child, FALSE), "g_generate")
    /\ UNCHANGED <<lock_vars, draft_vars, retry_vars, fn_vars>>

\* run_gemini, lines 122-149: one pass of the for loop up to the sleep
RunGemini(r) ==
    /\ pc[r] = "g_generate"
    /\ Called(r, "generation")
    /\ attempts' = [attempts EXCEPT ![r] = @ + 1]
    /\ \E response \in GeminiResponses, d \in DraftIds :
          /\ last_response' = [last_response EXCEPT ![r] = response]
          /\ IF response = "hang"
             THEN /\ Goto(r, "blocked")
                  /\ UNCHANGED <<waits, payload_id>>
             ELSE CASE retry_decision(attempts[r], response).do = "return" ->
                        /\ payload_id' = [payload_id EXCEPT ![r] = d]
                        /\ Goto(r, "g_normalize")
                        /\ UNCHANGED waits
                    [] retry_decision(attempts[r], response).do = "sleep" ->
                        /\ waits' = [waits EXCEPT
                                        ![r] = Append(@, retry_decision(attempts[r],
                                                                        response).wait)]
                        /\ Goto(r, "g_sleep")
                        /\ UNCHANGED payload_id
                    [] retry_decision(attempts[r], response).do = "raise" ->
                        /\ GeminiOnException(r)
                        /\ UNCHANGED <<waits, payload_id>>
    /\ UNCHANGED <<lock_vars, is_normalized, is_validated, errors, dry_run, fn_vars>>

\* run_gemini, lines 141-142: time.sleep(wait_time) is over; continue
GeminiBackoff(r) ==
    /\ pc[r] = "g_sleep"
    /\ Goto(r, "g_generate")
    /\ UNCHANGED <<lock_vars, draft_vars, retry_vars, fn_vars, calls>>

\* main, line 241
GeminiNormalize(r) ==
    /\ pc[r] = "g_normalize"
    /\ IF ~pipeline.gemini[payload_id[r]].is_object
       THEN /\ GeminiOnException(r) \* payload.get on a JSON value that is no object
            /\ UNCHANGED is_normalized
       ELSE /\ is_normalized' = [is_normalized EXCEPT ![r] = TRUE]
            /\ Goto(r, "g_validate")
    /\ UNCHANGED <<lock_vars, payload_id, is_validated, errors, dry_run, retry_vars,
                   fn_vars, calls>>

\* main, lines 242-259
GeminiValidate(r) ==
    /\ pc[r] = "g_validate"
    /\ errors' = [errors EXCEPT ![r] = pipeline.gemini[payload_id[r]].errors]
    /\ is_validated' = [is_validated EXCEPT ![r] = TRUE]
    /\ \E dry \in BOOLEAN :
          /\ dry_run' = [dry_run EXCEPT ![r] = dry]
          /\ IF pipeline.gemini[payload_id[r]].errors # <<>>
             THEN GeminiReturn(r, 1, "rejected")
             ELSE IF pipeline.gemini[payload_id[r]].status = "skip"
                  THEN GeminiReturn(r, 0, "skipped")
                  ELSE Goto(r, IF dry THEN "g_debug" ELSE "g_insert")
    /\ UNCHANGED <<lock_vars, payload_id, is_normalized, retry_vars, fn_vars, calls>>

\* main, lines 253-258 and 267: the debug file is written, which may raise OSError
GeminiDebugWrite(r) ==
    /\ pc[r] = "g_debug"
    /\ \E written \in BOOLEAN :
          IF written THEN GeminiReturn(r, 0, "dry_run") ELSE GeminiOnException(r)
    /\ UNCHANGED <<lock_vars, draft_vars, retry_vars, fn_vars, calls>>

\* main, lines 260-261 and 267; insert_post: run_command has no timeout
GeminiInsertPost(r) ==
    /\ pc[r] = "g_insert"
    /\ Called(r, "insertion")
    /\ \E child \in ChildBehaviours :
          CASE call_result(child, FALSE) = "returned" -> GeminiReturn(r, 0, "accepted")
            [] call_result(child, FALSE) = "raised" -> GeminiOnException(r)
            [] call_result(child, FALSE) = "blocked" -> Goto(r, "blocked")
    /\ UNCHANGED <<lock_vars, draft_vars, retry_vars, fn_vars>>

GeminiStep(r) ==
    \/ GeminiGetTitles(r)
    \/ GeminiGetCandidates(r)
    \/ RunGemini(r)
    \/ GeminiBackoff(r)
    \/ GeminiNormalize(r)
    \/ GeminiValidate(r)
    \/ GeminiDebugWrite(r)
    \/ GeminiInsertPost(r)

NextGemini == \E r \in GeminiRuns : GeminiStep(r)

\* independently scheduled runs of gemini_autopost.main
SpecGemini == Init /\ [][NextGemini]_vars

(***************************************************************************)
(* validate_payload called directly, on drafts and corpora drawn from      *)
(* ValidateInputs.                                                         *)
(***************************************************************************)
SkipReasons ==
    {"", " ", " \t\n", "No candidate could be verified.", "  sources disagree  "}

\* what a skip draft may carry besides its reason: nothing, a complete
\* profile, or fields that break the rules for publish drafts
SkipBodies ==
    {EmptyDraft,
     [ValidDraft EXCEPT !.status = "skip"],
     [ValidDraft EXCEPT !.status = "skip", !.title = "Short", !.slug = "Not Kebab",
                        !.key_facts = <<>>],
     [ValidDraft EXCEPT !.status = "skip", !.sources_is_list = FALSE, !.sources = <<>>,
                        !.candidate_profile = EmptyProfile, !.seo = EmptySeo]}

Corpora ==
    {[titles |-> <<>>, candidates |-> <<>>],
     [titles |-> ExistingTitles, candidates |-> ExistingCandidates],
     [titles |-> <<ValidDraft.title>>, candidates |-> <<"Sita Gurung">>]}

Policies ==
    {[min_sources |-> DefaultMinSources, min_confidence |-> DefaultMinConfidence],
     [min_sources |-> NumSources + 1, min_confidence |-> 100]}

ValidateInputs ==
    {ValidateCall([body EXCEPT !.reason = reason], corpus.titles, corpus.candidates,
                  policy.min_sources, policy.min_confidence) :
        body \in SkipBodies, reason \in SkipReasons, corpus \in Corpora,
        policy \in Policies}
    \cup {ValidateCall(Drafts[d], ExistingTitles, ExistingCandidates,
                       DefaultMinSources, DefaultMinConfidence) : d \in DraftIds \ {"not_object"}}

InitValidate ==
    /\ RunsInit
    /\ fn_input \in ValidateInputs
    /\ fn_output = NotComputed

ApplyValidate ==
    /\ ~fn_output.done
    /\ fn_output' = [done |-> TRUE,
                     errors |-> validate_payload(fn_input.payload, fn_input.existing_titles,
                                                 fn_input.existing_candidates,
                                                 fn_input.min_sources,
                                                 fn_input.min_confidence)]
    /\ UNCHANGED <<run_vars, pipeline, fn_input>>

NextValidate == ApplyValidate

SpecValidate == InitValidate /\ [][NextValidate]_vars

(***************************************************************************)
(* The text normalizer, the duplicate detector and the candidate rule of   *)
(* the two validators, called directly on arguments drawn from             *)
(* FunctionCalls.  fn_input.fn names the function that is called.          *)
(***************************************************************************)
\* the character windows normalize_seo_fields passes (lines 354 and 360), and
\* a narrow one
Windows ==
    {[min_chars |-> MetaTitleMin, max_chars |-> MetaTitleMax],
     [min_chars |-> MetaDescriptionMin, max_chars |-> MetaDescriptionMax],
     [min_chars |-> 6, max_chars |-> 6]}

ExpandTexts ==
    {"", "ab", "Nepal  election ", Rep("a", MetaTitleMin - 1),
     "short " \o Rep("x", 60),
     "Sita Gurung candidate profile - Nepal election 2026",
     "Sita Gurung candidate profile for the Nepal election of 5 March 2026, with "
         \o "her background, political career, policy positions and electoral outlook.",
     "Nepal election 2026: background, career and outlook of Sita Gurung candidate profile"}

ExpandFallbacks == {"", "cd", "Sita Gurung candidate profile: Nepal election 2026"}

ExpandCalls ==
    {[fn |-> "expand_to_min_chars", text |-> text, min_chars |-> w.min_chars,
      max_chars |-> w.max_chars, fallback |-> fallback] :
        text \in ExpandTexts, w \in Windows, fallback \in ExpandFallbacks}

SlugTexts ==
    {"", "!!!", " -- ", "Sita Gurung", "  Sita   GURUNG!! 2026 ", "K.P. Oli", "-a-",
     "nepal election candidate profile", Rep("a", SlugMaxChars + 10),
     Rep("abcdefgh ", 20), Rep("abcdefg ", 20), Rep("ab-", 50)}

\* trim_slug(slug, 120) of cybersecurity_autopost.py, trim_slug(slug) of
\* gemini_autopost.py
SlugCalls ==
    {[fn |-> fn, text |-> text, max_chars |-> SlugMaxChars] :
        fn \in {"trim_slug", "g_trim_slug"}, text \in SlugTexts}

\* drafts for normalize_seo_fields: complete, without seo block, with the
\* keyphrase beyond the character window, with a keyphrase longer than the
\* window, without slug, and a skip draft
SeoDrafts ==
    {ValidDraft,
     [ValidDraft EXCEPT !.seo = EmptySeo],
     [ValidDraft EXCEPT !.seo.meta_title =
         "Nepal election 2026: background, career and outlook of Sita Gurung candidate profile"],
     [ValidDraft EXCEPT !.seo.meta_description =
         "Background, political career, policy positions, electoral outlook and the "
         \o "constituency of the candidate in the Nepal election of 5 March 2026, a "
         \o "long read: Sita Gurung candidate profile"],
     [ValidDraft EXCEPT !.seo.focus_keyphrase =
         "Sita Gurung candidate profile for the House of Representatives election in Nepal"],
     [ValidDraft EXCEPT !.slug = "", !.seo.seo_slug_hint = ""],
     [ValidDraft EXCEPT !.title = "  Sita  Gurung:  profile ", !.seo = EmptySeo],
     [EmptyDraft EXCEPT !.reason = "No candidate could be verified."]}

SeoCalls == {[fn |-> "normalize_seo_fields", payload |-> d] : d \in SeoDrafts}

\* titles without tokens, titles equal after normalization, and titles whose
\* token sets overlap by 5/9, 3/4, 5/7 and 18/25
DuplicateTitles ==
    {"", "!!!", "The of and",
     "Sita Gurung candidate profile: Nepal election 2026",
     "SITA GURUNG -- candidate profile; nepal election 2026!",
     "Ram Thapa candidate profile: Nepal election 2026",
     "alpha bravo charlie", "alpha bravo charlie delta", "alpha bravo charlie delta echo",
     "alpha bravo charlie delta echo foxtrot golf",
     "t01 t02 t03 t04 t05 t06 t07 t08 t09 t10 t11 t12 t13 t14 t15 t16 t17 t18",
     "t01 t02 t03 t04 t05 t06 t07 t08 t09 t10 t11 t12 t13 t14 t15 t16 t17 t18 "
         \o "t19 t20 t21 t22 t23 t24 t25"}

DuplicateCorpora ==
    {<<>>, ExistingTitles} \cup {<<t>> : t \in DuplicateTitles}
    \cup {<<"How Nepal votes: the 2026 ballot explained", t>> : t \in DuplicateTitles}

DuplicateCalls ==
    {[fn |-> "near_duplicate_title", new_title |-> t, existing_titles |-> corpus] :
        t \in DuplicateTitles, corpus \in DuplicateCorpora}

\* candidate names with one token of three characters or more; the token
\* is in the title, in the excerpt and many times in the body of the valid draft
OneTokenNames == {"Gurung", "Dr. Gurung"}

\* main normalizes a draft before it validates it (lines 763 and 768): the valid
\* draft as validate_payload receives it
NormalizedDraft == normalize_seo_fields(ValidDraft).payload

\* publish drafts that break one rule or several: a short title that is also
\* in the corpus, a key fact with a non-numeric confidence and one URL, sources
\* that are no list, and sources over 5 domains (all entries, the first five,
\* and five that leave out the profile source)
RuleDrafts ==
    {NormalizedDraft,
     [NormalizedDraft EXCEPT !.title = "Ram Thapa: profile"],
     [NormalizedDraft EXCEPT !.key_facts =
         <<[confidence |-> [numeric |-> FALSE, value |-> 0],
            supporting_source_urls |-> <<"https://news1.example.org/story/1">>],
           [confidence |-> [numeric |-> TRUE, value |-> 40],
            supporting_source_urls |-> <<>>]>>],
     [NormalizedDraft EXCEPT !.sources_is_list = FALSE, !.sources = <<>>, !.key_facts = <<>>,
                        !.candidate_profile.candidate_name = "Ram Thapa"],
     [NormalizedDraft EXCEPT !.sources = SourcesOver(5)],
     [NormalizedDraft EXCEPT !.sources = SubSeq(SourcesOver(NumSources), 1, 5)],
     [NormalizedDraft EXCEPT !.sources = SubSeq(SourcesOver(NumSources), 2, 6)]}

\* candidate names: new, in the corpus up to case, spacing or punctuation,
\* a part of a corpus name, and none
CandidateNames == {"Sita Gurung", "RAM  thapa", "Ram-Thapa!", "Maya K C", "Ram", ""}

CandidateDrafts ==
    {[NormalizedDraft EXCEPT !.candidate_profile.candidate_name = name] : name \in CandidateNames}

\* the valid draft under a one-token candidate name, with its sources and
\* with sources that are no list
OneTokenDrafts ==
    {[NormalizedDraft EXCEPT !.candidate_profile.candidate_name = name] :
        name \in OneTokenNames}
    \cup
    {[NormalizedDraft EXCEPT !.candidate_profile.candidate_name = name,
                             !.sources_is_list = FALSE, !.sources = <<>>] :
        name \in OneTokenNames}

RuleTitles == <<"Ram Thapa: profile">> \o ExistingTitles

\* validate_payload of cybersecurity_autopost.py and of gemini_autopost.py,
\* with the default thresholds of their entry points (the gemini validator
\* iterates over sources unguarded: it gets the drafts whose sources are a list)
ValidateCalls ==
    {[fn |-> "validate_payload", payload |-> d, existing_titles |-> RuleTitles,
      existing_candidates |-> candidates, min_sources |-> DefaultMinSources,
      min_confidence |-> DefaultMinConfidence] :
        d \in RuleDrafts \cup CandidateDrafts \cup OneTokenDrafts,
        candidates \in {<<>>, ExistingCandidates}}
    \cup
    {[fn |-> "g_validate_payload", payload |-> d, existing_titles |-> RuleTitles,
      existing_candidates |-> candidates, min_sources |-> GeminiDefaultMinSources] :
        d \in {r \in RuleDrafts \cup CandidateDrafts \cup OneTokenDrafts : r.sources_is_list},
        candidates \in {<<>>, ExistingCandidates}}

FunctionCalls ==
    ExpandCalls \cup SlugCalls \cup SeoCalls \cup DuplicateCalls \cup ValidateCalls

InitFunctions ==
    /\ RunsInit
    /\ fn_input \in FunctionCalls
    /\ fn_output = NotComputed

\* expand_to_min_chars(text, min_chars, max_chars, fallback)
CallExpandToMinChars ==
    /\ ~fn_output.done
    /\ fn_input.fn = "expand_to_min_chars"
    /\ fn_output' =
          Let(expand_to_min_chars(fn_input.text, fn_input.min_chars, fn_input.max_chars,
                                  fn_input.fallback),
              LAMBDA result : [done |-> TRUE, returns |-> result.returns,
                               text |-> result.text])
    /\ UNCHANGED <<run_vars, pipeline, fn_input>>

\* cybersecurity_autopost.trim_slug(slug, max_chars)
CallTrimSlug ==
    /\ ~fn_output.done
    /\ fn_input.fn = "trim_slug"
    /\ fn_output' = [done |-> TRUE, returns |-> TRUE,
                     text |-> trim_slug(fn_input.text, fn_input.max_chars)]
    /\ UNCHANGED <<run_vars, pipeline, fn_input>>

\* gemini_autopost.trim_slug(slug)
CallGeminiTrimSlug ==
    /\ ~fn_output.done
    /\ fn_input.fn = "g_trim_slug"
    /\ fn_output' = [done |-> TRUE, returns |-> TRUE, text |-> g_trim_slug(fn_input.text)]
    /\ UNCHANGED <<run_vars, pipeline, fn_input>>

\* normalize_seo_fields(payload), and normalize_seo_fields of its result
CallNormalizeSeoFields ==
    /\ ~fn_output.done
    /\ fn_input.fn = "normalize_seo_fields"
    /\ fn_output' =
          Let(normalize_seo_fields(fn_input.payload), LAMBDA first :
              IF ~first.returns
              THEN [done |-> TRUE, returns |-> FALSE, once |-> first.payload,
                    twice |-> first.payload]
              ELSE Let(normalize_seo_fields(first.payload), LAMBDA second :
                       [done |-> TRUE, returns |-> second.returns,
                        once |-> first.payload, twice |-> second.payload]))
    /\ UNCHANGED <<run_vars, pipeline, fn_input>>

\* near_duplicate_title(new_title, existing_titles)
CallNearDuplicateTitle ==
    /\ ~fn_output.done
    /\ fn_input.fn = "near_duplicate_title"
    /\ fn_output' = [done |-> TRUE,
                     result |-> near_duplicate_title(fn_input.new_title,
                                                     fn_input.existing_titles)]
    /\ UNCHANGED <<run_vars, pipeline, fn_input>>

\* cybersecurity_autopost.validate_payload
CallValidatePayload ==
    /\ ~fn_output.done
    /\ fn_input.fn = "validate_payload"
    /\ fn_output' = [done |-> TRUE,
                     errors |-> validate_payload(fn_input.payload, fn_input.existing_titles,
                                                 fn_input.existing_candidates,
                                                 fn_input.min_sources,
                                                 fn_input.min_confidence)]
    /\ UNCHANGED <<run_vars, pipeline, fn_input>>

\* gemini_autopost.validate_payload
CallGeminiValidatePayload ==
    /\ ~fn_output.done
    /\ fn_input.fn = "g_validate_payload"
    /\ fn_output' = [done |-> TRUE,
                     errors |-> g_validate_payload(fn_input.payload,
                                                   fn_input.existing_titles,
                                                   fn_input.existing_candidates,
                                                   fn_input.min_sources)]
    /\ UNCHANGED <<run_vars, pipeline, fn_input>>

NextFunctions ==
    \/ CallExpandToMinChars
    \/ CallValidatePayload
    \/ CallGeminiValidatePayload
    \/ CallNearDuplicateTitle
    \/ CallNormalizeSeoFields
    \/ CallTrimSlug
    \/ CallGeminiTrimSlug

SpecFunctions == InitFunctions /\ [][NextFunctions]_vars

(***************************************************************************)
(* Properties.                                                             *)
(***************************************************************************)
\* a run is between its successful acquire_lock and its own release_lock
HoldsLock(r) == lock_acquired[r] /\ pc[r] # "done"

\* C1: among the runs of cybersecurity_autopost.main, no two runs are at the
\* same time between a successful acquire_lock and their own release_lock.
\* Refuted: a run that finds the marker older than the staleness threshold
\* removes it and creates its own while the first run is still working.
C1_MutualExclusion ==
    \A r1 \in CyberRuns, r2 \in CyberRuns :
        r1 # r2 => ~(HoldsLock(r1) /\ HoldsLock(r2))

\* C2: in either entry point no corpus read, generation call or insertion
\* call is made by a run that does not hold the lock.  Refuted for
\* gemini_autopost.main, which never takes the lock.
C2_CallsOnlyUnderLock ==
    \A r \in GeminiRuns : calls[r] # NoCalls => lock_acquired[r]

\* C3: once a run of cybersecurity_autopost.main has acquired the lock, the
\* marker it created is gone by the time main has returned, whatever the
\* outcome of the run.
C3_MarkerRemovedOnReturn ==
    \A r \in CyberRuns :
        (pc[r] = "done" /\ lock_acquired[r]) =>
            ~(lock_file.exists /\ lock_file.pid = r)

\* C3 witness: a run that acquired the lock has returned through the
\* exception handler, and another one with a rejected draft.
C3_ReturnedAfterFailureAndRejection ==
    \E r1 \in CyberRuns, r2 \in CyberRuns :
        /\ pc[r1] = "done" /\ lock_acquired[r1] /\ terminal[r1] = "failed"
        /\ pc[r2] = "done" /\ lock_acquired[r2] /\ terminal[r2] = "rejected"

\* C4: a run that finds, when it starts, a marker not older than the
\* staleness threshold ends in Aborted: exit code 0 and no collaborator
\* call.  Refuted: the holder may release the marker between this run's
\* exists() and stat(), and stat() then raises FileNotFoundError.
C4_FreshMarkerAborts ==
    \A r \in CyberRuns :
        (marker_at_start[r] = "fresh" /\ pc[r] = "done") =>
            /\ terminal[r] = "aborted"
            /\ exit_code[r] = 0
            /\ calls[r] = NoCalls

\* C5: every collaborator call of a run is bounded by a timeout, so that no
\* run waits for ever on a collaborator that never exits.  Refuted: the
\* corpus queries and the insertion call pass no timeout.
C5_NoCallBlocksForEver ==
    \A r \in CyberRuns : pc[r] # "blocked"

\* C6: in either entry point insertion is called at most once, and only
\* after normalization and validation with an empty violation list, for a
\* draft of status publish, with dry-run off.  Refuted for
\* gemini_autopost.main, whose validator has no status gate.
C6_InsertOnlyValidatedPublish ==
    \A r \in GeminiRuns :
        /\ calls[r].insertion <= 1
        /\ calls[r].insertion > 0 =>
              /\ is_normalized[r]
              /\ is_validated[r]
              /\ errors[r] = <<>>
              /\ ~dry_run[r]
              /\ pipeline.gemini[payload_id[r]].status = "publish"

\* C7: run_gemini makes at most 3 attempts; the k-th attempt that ends with
\* a rate-limit signal (k = 1, 2) is followed by a wait of 30 * k seconds and
\* then by attempt k + 1; a success returns the draft without a wait.
C7_BackoffSchedule ==
    \A r \in GeminiRuns :
        /\ attempts[r] <= 3
        /\ Len(waits[r]) <= 2
        /\ \A k \in 1..Len(waits[r]) : waits[r][k] = 30 * k
        /\ pc[r] \in {"g_generate", "g_sleep"} => Len(waits[r]) = attempts[r]
        /\ payload_id[r] # "none" => Len(waits[r]) = attempts[r] - 1

\* C7 witness: rate-limit twice, success on the third attempt, and the run
\* has completed normally with the two waits 30 and 60.
C7_ThirdAttemptSucceeds ==
    \E r \in GeminiRuns :
        /\ attempts[r] = 3
        /\ waits[r] = <<30, 60>>
        /\ last_response[r] = "ok"
        /\ terminal[r] = "accepted"

\* C8: in run_gemini a failure other than a rate-limit signal is fatal at
\* once (no wait, no further attempt), a rate-limit signal on the third
\* attempt is fatal after 3 attempts and 2 waits, and in both cases the run
\* is an operational failure that never calls insertion.
C8_FatalGenerationFailures ==
    \A r \in GeminiRuns :
        /\ last_response[r] \in {"client_error", "empty_text", "bad_json"} =>
              /\ pc[r] = "done" /\ terminal[r] = "failed" /\ exit_code[r] = 1
              /\ Len(waits[r]) = attempts[r] - 1
              /\ calls[r].generation = attempts[r]
              /\ calls[r].insertion = 0
        /\ (last_response[r] = "rate_limit" /\ attempts[r] = 3) =>
              /\ pc[r] = "done" /\ terminal[r] = "failed" /\ exit_code[r] = 1
              /\ Len(waits[r]) = 2
              /\ calls[r].generation = 3
              /\ calls[r].insertion = 0

\* C8 witness: one run failed on an undecodable response at its second
\* attempt, another one was rate-limited three times.
C8_BothFatalCases ==
    \E r1 \in GeminiRuns, r2 \in GeminiRuns :
        /\ last_response[r1] = "bad_json" /\ attempts[r1] = 2 /\ pc[r1] = "done"
        /\ last_response[r2] = "rate_limit" /\ attempts[r2] = 3 /\ pc[r2] = "done"

\* C9: in either entry point the exit code of a validation-rejected run
\* differs from the exit code of an operational failure and from the
\* success code.  Refuted for gemini_autopost.main, which returns 1 for both.
C9_ExitCodeTellsOutcome ==
    \A r1 \in GeminiRuns, r2 \in GeminiRuns :
        (pc[r1] = "done" /\ pc[r2] = "done" /\ terminal[r1] = "rejected"
            /\ terminal[r2] # "rejected") =>
            exit_code[r1] # exit_code[r2]

\* C10: for a draft of status skip, validate_payload returns exactly one
\* violation when the reason is empty or only whitespace and the empty list
\* otherwise, whatever the other fields and the corpus contain.
C10_SkipDraftOnlyStatusGate ==
    (fn_output.done /\ fn_input.payload.status = "skip") =>
        IF \A i \in 1..Len(fn_input.payload.reason) :
               SubSeq(fn_input.payload.reason, i, i) \in {" ", "\t", "\n"}
        THEN Len(fn_output.errors) = 1
        ELSE fn_output.errors = <<>>

\* C10 witness: a skip draft with a blank reason and otherwise broken fields,
\* checked against a corpus that holds its title, got its one violation.
C10_BlankReasonWithBrokenFields ==
    /\ fn_output.done
    /\ fn_input.payload.status = "skip"
    /\ fn_input.payload.reason = " \t\n"
    /\ fn_input.payload.title = "Short"
    /\ fn_input.existing_titles # <<>>
    /\ fn_output.errors = <<"skip payload must include a reason.">>

\* C12: expand_to_min_chars returns, for min_chars <= max_chars, a text of at
\* least min_chars and at most max_chars characters, whether the input was
\* only trimmed or was padded.  Refuted: trim_to_max_chars cuts a text that
\* is long enough back to its last space, which may lie before min_chars.
C12_ExpandedLengthInWindow ==
    (fn_output.done /\ fn_input.fn = "expand_to_min_chars" /\ fn_output.returns) =>
        /\ Len(fn_output.text) >= fn_input.min_chars
        /\ Len(fn_output.text) <= fn_input.max_chars

\* C20: expand_to_min_chars terminates for every text, fallback and
\* min_chars <= max_chars.  Refuted: when one character is missing, the slice
\* of the filler is its leading space, strip() removes it again and the loop
\* repeats with the same text.
C20_ExpandTerminates ==
    (fn_output.done /\ fn_input.fn = "expand_to_min_chars") => fn_output.returns

\* C13: trim_slug returns, for every text, a non-empty kebab-case string; it
\* is the default slug when the text has no character of [a-z0-9] after
\* lower-casing, and it starts with the first such run of the text otherwise.
\* Refuted for gemini_autopost.trim_slug, which has no default and returns "".
C13_SlugNeverEmpty ==
    (fn_output.done /\ fn_input.fn \in {"trim_slug", "g_trim_slug"}) =>
        /\ fn_output.text # ""
        /\ is_kebab_case(fn_output.text)
        /\ IF \A i \in 1..Len(fn_input.text) : ~IsLowerAlnum(lower_char(Ch(fn_input.text, i)))
           THEN fn_output.text = DefaultSlug
           ELSE StartsWith(findall_alnum(lower(fn_input.text))[1],
                           findall_alnum(fn_output.text)[1])

\* C14: when the hyphen-joined form of the text is longer than max_chars,
\* every hyphen-separated token of the slug cybersecurity_autopost.trim_slug
\* returns is a complete [a-z0-9] run of the lower-cased text.  Refuted: the
\* joined form has no space, so it is cut at exactly max_chars characters.
C14_SlugCutAtHyphen ==
    (/\ fn_output.done
     /\ fn_input.fn = "trim_slug"
     /\ Len(Join(findall_alnum(lower(fn_input.text)), "-")) > fn_input.max_chars) =>
        SeqToSet(findall_alnum(fn_output.text))
            \subseteq SeqToSet(findall_alnum(lower(fn_input.text)))

\* C15: normalize_seo_fields is idempotent: applied to its own result it
\* returns that result, in the seo block and in the slug.  Refuted: a meta
\* title that holds the keyphrase only beyond character 65 is trimmed by the
\* first pass, and the second pass, no longer finding the keyphrase, puts it
\* in front.
C15_NormalizeSeoIdempotent ==
    (fn_output.done /\ fn_input.fn = "normalize_seo_fields" /\ fn_output.returns) =>
        /\ fn_output.twice.seo = fn_output.once.seo
        /\ fn_output.twice.slug = fn_output.once.slug

\* C16: near_duplicate_title is true exactly when some existing title has the
\* same normalized title as the new one, or both token sets are non-empty and
\* 100 * |intersection| >= 72 * |union|; it is true for (X, [X]) and false
\* for an empty corpus.
C16_NearDuplicateCharacterised ==
    (fn_output.done /\ fn_input.fn = "near_duplicate_title") =>
        /\ fn_output.result <=>
              \E k \in 1..Len(fn_input.existing_titles) :
                  \/ normalize_title(fn_input.new_title)
                         = normalize_title(fn_input.existing_titles[k])
                  \/ /\ title_tokens(fn_input.new_title) # {}
                     /\ title_tokens(fn_input.existing_titles[k]) # {}
                     /\ 100 * Cardinality(title_tokens(fn_input.new_title)
                                              \cap title_tokens(fn_input.existing_titles[k]))
                           >= 72 * Cardinality(title_tokens(fn_input.new_title)
                                                   \cup title_tokens(fn_input.existing_titles[k]))
        /\ fn_input.existing_titles = <<fn_input.new_title>> => fn_output.result
        /\ fn_input.existing_titles = <<>> => ~fn_output.result

\* C16 witness: a title without tokens was compared with a corpus that holds
\* just that title, and was found to be a duplicate.
C16_TokenlessTitleIsItsOwnDuplicate ==
    /\ fn_output.done
    /\ fn_input.fn = "near_duplicate_title"
    /\ fn_input.new_title = "!!!"
    /\ title_tokens(fn_input.new_title) = {}
    /\ fn_input.existing_titles = <<"!!!">>
    /\ fn_output.result

\* the draft of a validate_payload call is the valid draft with other sources
\* over 5 distinct domains
FiveDomainCall ==
    /\ fn_output.done
    /\ fn_input.fn = "validate_payload"
    /\ fn_input.min_sources = DefaultMinSources
    /\ fn_input.payload = [NormalizedDraft EXCEPT !.sources = fn_input.payload.sources]
    /\ Cardinality(unique_domain_set(fn_input.payload.sources)) = 5

ProfileSourceListed ==
    fn_input.payload.candidate_profile.profile_source_url
        \in {fn_input.payload.sources[i].url : i \in 1..Len(fn_input.payload.sources)}

SourceCountViolation ==
    "Need at least " \o ToString(fn_input.min_sources) \o " sources; found "
        \o ToString(Len(fn_input.payload.sources)) \o "."

DomainCountViolation ==
    "Need at least " \o ToString(fn_input.min_sources) \o " unique source domains; found "
        \o ToString(Cardinality(unique_domain_set(fn_input.payload.sources))) \o "."

\* C17 (as the claim states it): the valid draft with only its sources
\* changed so that they cover 5 distinct domains gets, with min_sources = 12,
\* exactly the source-count and the distinct-domain-count violations.
C17_FiveDomainsGiveTwoViolations ==
    FiveDomainCall => fn_output.errors = <<SourceCountViolation, DomainCountViolation>>

\* C17: the valid draft (validate returns no violation for it) with only its
\* sources changed so that they cover 5 distinct domains, the profile source
\* still among them, gets with min_sources = 12 the distinct-domain-count
\* violation, preceded by the source-count violation if and only if fewer than
\* 12 sources are left, and no other violation.
C17_FiveDomainsViolations ==
    /\ (fn_output.done /\ fn_input.fn = "validate_payload"
            /\ fn_input.payload = NormalizedDraft) => fn_output.errors = <<>>
    /\ (FiveDomainCall /\ ProfileSourceListed) =>
            fn_output.errors =
                (IF Len(fn_input.payload.sources) < fn_input.min_sources
                 THEN <<SourceCountViolation>> ELSE <<>>)
                \o <<DomainCountViolation>>

\* five sources over five domains: both violations
C17_FiveSourcesTwoViolations ==
    /\ FiveDomainCall
    /\ ProfileSourceListed
    /\ Len(fn_input.payload.sources) = 5
    /\ fn_output.errors = <<SourceCountViolation, DomainCountViolation>>

ReportedViolations == SeqToSet(fn_output.errors)

\* C11: for a publish draft, each rule is reported if and only if it fails,
\* whatever other rule failed: the title floor, the near-duplicate title rule,
\* the non-empty key_facts rule, and for every key fact the numeric-confidence
\* rule and the two-supporting-URLs rule.
C11_EveryFailedRuleReported ==
    (fn_output.done /\ fn_input.fn = "validate_payload"
        /\ fn_input.payload.status = "publish") =>
        /\ (Len(strip(fn_input.payload.title)) < TitleMinChars)
               <=> (ReportedViolations \cap {"Missing title.", "Title is too short."} # {})
        /\ near_duplicate_title(strip(fn_input.payload.title), fn_input.existing_titles)
               <=> ("Generated title appears to duplicate an existing topic." \in ReportedViolations)
        /\ (Len(fn_input.payload.key_facts) = 0)
               <=> ("key_facts must be a non-empty list." \in ReportedViolations)
        /\ \A i \in 1..Len(fn_input.payload.key_facts) :
              /\ (~fn_input.payload.key_facts[i].confidence.numeric)
                     <=> (("key_facts[" \o ToString(i) \o "] confidence is not numeric.")
                             \in ReportedViolations)
              /\ (Len(fn_input.payload.key_facts[i].supporting_source_urls) < 2)
                     <=> (("key_facts[" \o ToString(i)
                              \o "] must have at least 2 supporting_source_urls.")
                             \in ReportedViolations)

CandidateInCorpus ==
    normalize_candidate_name(fn_input.payload.candidate_profile.candidate_name)
        \in {normalize_candidate_name(fn_input.existing_candidates[i]) :
                i \in 1..Len(fn_input.existing_candidates)}

\* C18: a publish draft gets the candidate-already-profiled violation if and
\* only if its candidate name equals a corpus candidate name after the case-
\* and punctuation-insensitive normalization, whatever its other fields are.
C18_KnownCandidateReported ==
    (fn_output.done /\ fn_input.fn \in {"validate_payload", "g_validate_payload"}
        /\ fn_input.payload.status = "publish") =>
        (CandidateInCorpus <=>
            (ReportedViolations
                \cap {"Candidate has already been profiled in earlier posts.",
                      "Candidate already exists"} # {}))

\* C19: a run that leaves acquire_lock without the lock because the marker
\* exists, at the age test or at the exclusive create, ends Aborted with
\* exit code 0.
C19_DeniedLockAborts ==
    [][\A r \in CyberRuns :
          (/\ pc[r] \in {"acquire_stat", "acquire_create"}
           /\ lock_file.exists
           /\ pc'[r] = "finally")
          => (terminal'[r] = "aborted" /\ exit_code'[r] = 0)]_vars

\* the tokens of three characters or more of the draft's candidate name
CandidateNameTokens ==
    {t \in SeqToSet(findall_alnum(lower(
              normalize_ws(fn_input.payload.candidate_profile.candidate_name)))) :
        Len(t) >= 3}

\* C21: a publish draft whose candidate name has exactly one token of three
\* characters or more gets the content-body candidate-context violation from
\* validate_payload, however often the name occurs in the body (so that main
\* returns before insert_post).
C21_OneTokenNameRejectedForBody ==
    (fn_output.done /\ fn_input.fn = "validate_payload"
        /\ fn_input.payload.status = "publish"
        /\ Cardinality(CandidateNameTokens) = 1) =>
        "content_html should include candidate context clearly." \in ReportedViolations

=============================================================================
